---- MODULE Spec2Model ----
(***************************************************************************)
(* State-machine model of fltk/client.py: the Client object a federator    *)
(* drives through _remote_method, its lifecycle (init_dataloader,          *)
(* infect_client, cure_client, reset_model), the round run_epochs ->       *)
(* train -> test, and the checkpoint loader load_model_from_file.          *)
(*                                                                         *)
(* Python attribute lookup is modelled as written in the class: counter,   *)
(* finished_init, dataset and epoch_counter are class attributes (lines    *)
(* 44-47); an instance gets its own attribute on its first assignment and  *)
(* `del self.x` removes only the instance attribute.  An instance          *)
(* attribute is a sequence of length 0 (absent) or 1 (its value).          *)
(*                                                                         *)
(* Spec is the client as the federator drives it, under a configuration    *)
(* that saves no model.  SpecSave is the round under the configurations    *)
(* that save, SpecPeer the client next to a second Client object (with     *)
(* rpc_test), SpecLoad the checkpoint loader, SpecTest the evaluation pass *)
(* with its metrics and SpecLoss the loss bookkeeping of the training pass.*)
(***************************************************************************)
EXTENDS Integers, Sequences, FiniteSets, TLC

VARIABLES
    finished_init,   \* instance attribute finished_init: <<>> or <<BOOLEAN>>
    dataset,         \* instance attribute dataset: <<>> or <<dataset record>>
    epoch_counter,   \* instance attribute epoch_counter: <<>> or <<Nat>>
    net,             \* instance attribute net: <<>> or <<parameter value>>
    optimizer,       \* SGD optimizer state: steps taken since it was built
    scheduler,       \* MinCapableStepLR state: steps taken since it was built
    args,            \* the bound configuration object (self.args)
    device,          \* self.device
    fs,              \* the flat-file storage: path -> file
    rnd,             \* the run_epochs invocation in progress (its locals)
    weights,         \* the weights dict the last run_epochs returned: <<>> or <<handle>>
    ret,             \* the response of the last finished state-changing invocation
    coord_blocked,   \* the federator thread is waiting inside rpc_sync
    ld,              \* the last load_model_from_file call: its path and outcome
    gh,              \* history: the rounds requested by the calls that returned
    save_dir,        \* the save folder: <<>> (absent) or <<set of [path, w] files>>
    counter,         \* instance attribute counter: <<>> or <<Nat>>
    other,           \* the instance attributes of a second Client object
    tr,              \* the locals of the batch loop of train (loss window)
    te               \* the locals of test (counters, label lists, metrics)

vars == <<finished_init, dataset, epoch_counter, net, optimizer, scheduler, args,
          device, fs, rnd, weights, ret, coord_blocked, ld, gh, save_dir, counter,
          other, tr, te>>

(***************************************************************************)
(* Bounds of the model.                                                    *)
(***************************************************************************)
NumBatches == 2        \* batches one pass over the train loader yields
MaxNumEpoch == 2       \* largest num_epoch a federator requests
MaxEpochCounter == 2   \* run_epochs is not invoked beyond this counter
MaxOptSteps == 4       \* optimizer steps modelled per optimizer object
MaxFileW == 2          \* largest parameter value a stored file holds
MaxTestBatches == 3    \* batches the test loader yields at most
MaxLossBatches == 4    \* batches of a training pass whose loss is followed
MaxLogInterval == 3    \* largest configured log interval
MaxCalls == 2          \* rpc_test invocations followed

(***************************************************************************)
(* Values.                                                                 *)
(***************************************************************************)
None == <<>>
Some(x) == <<x>>
NoPill == "None"
Pills == {"pill"}
PillArgs == Pills \cup {NoPill}

\* Constructor arguments of this client (lines 53-56).
id == "c1"
rank == 1
world_size == 2

\* Class attributes (lines 44-47); no statement assigns to them on the class.
class_counter == 0
class_finished_init == FALSE
class_dataset == None
class_epoch_counter == 0

\* Instance attribute lookup with fallback to the class attribute.
GetAttr(inst, cls) == IF inst = None THEN cls ELSE inst[1]

\* is_ready(): the value of self.finished_init.
is_ready == GetAttr(finished_init, class_finished_init)

\* The value self.epoch_counter evaluates to.
EpochCounter == GetAttr(epoch_counter, class_epoch_counter)

\* model_class(): parameters of a freshly constructed model.
InitW == 0

\* values update_nn_parameters is invoked with
NewParams == {2}

(***************************************************************************)
(* RemoteProxy.  rpc_sync returns when the callee has returned: while the  *)
(* invocation is pending the caller is blocked.  rpc_async returns at once.*)
(***************************************************************************)
remote_method_async(pending) == FALSE

remote_method(pending) == pending

\* The federator issues an invocation only when it is not blocked in one.
CanInvoke == ~coord_blocked

(***************************************************************************)
(* ModelCheckpoint: load_model_from_file / load_default_model.             *)
(* A file is [exists, load_ok, cpu_ok, w]: whether torch.load succeeds as  *)
(* is, whether it succeeds with map_location = cpu, and the parameters it  *)
(* holds.  The outcome lists the load attempts made and the warnings.      *)
(***************************************************************************)
DefaultModelPath == "default_models/Net.model"
OtherPath == "other.model"
Paths == {DefaultModelPath, OtherPath}

AbsentFile == [exists |-> FALSE, load_ok |-> FALSE, cpu_ok |-> FALSE, w |-> 0]
Files == {AbsentFile} \cup
         [exists : {TRUE}, load_ok : BOOLEAN, cpu_ok : BOOLEAN, w : 1..MaxFileW]

WarnCouldNotLoad == "Couldn't load model. Attempting to map CUDA tensors to CPU to solve error."
WarnCouldNotFind == "Could not find model"

\* lines 209-214 without the except clause: a failed load is not retried
load_model_from_file_no_retry(files, path) ==
    LET f == files[path] IN
    IF f.exists
    THEN IF f.load_ok
         THEN [raised |-> FALSE, model |-> Some(f.w), attempts |-> <<"load">>,
               warnings |-> <<>>]
         ELSE [raised |-> TRUE, model |-> None, attempts |-> <<"load">>,
               warnings |-> <<>>]
    ELSE [raised |-> FALSE, model |-> Some(InitW), attempts |-> <<>>,
          warnings |-> <<WarnCouldNotFind>>]

\* lines 198-218
load_model_from_file(files, path) ==
    LET f == files[path] IN
    IF f.exists
    THEN IF f.load_ok
         THEN [raised |-> FALSE, model |-> Some(f.w), attempts |-> <<"load">>,
               warnings |-> <<>>]
         ELSE IF f.cpu_ok
              THEN [raised |-> FALSE, model |-> Some(f.w),
                    attempts |-> <<"load", "load_map_cpu">>,
                    warnings |-> <<WarnCouldNotLoad>>]
              ELSE [raised |-> TRUE, model |-> None,
                    attempts |-> <<"load", "load_map_cpu">>,
                    warnings |-> <<WarnCouldNotLoad>>]
    ELSE [raised |-> FALSE, model |-> Some(InitW), attempts |-> <<>>,
          warnings |-> <<WarnCouldNotFind>>]

load_default_model(files) == load_model_from_file(files, DefaultModelPath)

(***************************************************************************)
(* ModelCheckpoint: save_model(epoch, suffix) (lines 352-362).  The save   *)
(* folder is absent (<<>>) or holds a set of files [path, w]; a write to   *)
(* an existing path replaces the file.  should_save_model is the policy of *)
(* the bound configuration: the set of epochs it triggers for.             *)
(***************************************************************************)
SaveRoot == "models"
StartSuffix == "start"
EndSuffix == "end"

should_save_model(a, epoch) == epoch \in a.save_epochs

\* lines 358-359: the save folder is created when it does not exist
mkdir(d) == IF d = None THEN Some({}) ELSE d

\* line 361 naming the file by the epoch that follows
save_path_next_epoch(cid, epoch, suffix) ==
    SaveRoot \o "/model_" \o cid \o "_" \o ToString(epoch + 1) \o "_" \o suffix \o ".model"

\* line 361: os.path.join(folder, f"model_{self.id}_{epoch}_{suffix}.model")
save_path(cid, epoch, suffix) ==
    SaveRoot \o "/model_" \o cid \o "_" \o ToString(epoch) \o "_" \o suffix \o ".model"

\* line 362: torch.save(self.get_nn_parameters(), full_save_path)
save_model(d, epoch, suffix, w) ==
    LET files == mkdir(d)[1]
        p == save_path(id, epoch, suffix)
    IN  Some({f \in files : f.path # p} \cup {[path |-> p, w |-> w]})

(***************************************************************************)
(* Dataset construction: self.args.DistDatasets[name](self.args, pill).    *)
(* The dataset is identified by its construction inputs.  The epoch and    *)
(* the epoch size of its sampler are set anew at the entry of every round  *)
(* (lines 334 and 252) and are kept with the round.                        *)
(***************************************************************************)
DistDataset(a, pill) ==
    [pill |-> pill, rank |-> a.rank, world_size |-> a.world_size,
     distributed |-> a.distributed]

\* init_device(): cuda:0 only when configured and available.
init_device(cuda, available) == IF cuda /\ available THEN "cuda:0" ELSE "cpu"

FreshOptimizer == [steps |-> 0]
FreshScheduler == [steps |-> 0]

\* The locals of a run_epochs invocation: the arguments, the counter and the
\* optimizer and scheduler steps at entry, the batches fed to the forward pass,
\* and the trace of the steps taken (checkpoints written, optimizer and
\* scheduler steps, the evaluation pass).
IdleRound == [pc |-> "idle", n |-> 0, pill |-> NoPill, c0 |-> 0, i |-> 0,
              log |-> <<>>, weights |-> None, o0 |-> 0, s0 |-> 0, trace |-> <<>>]

\* train before its batch loop (lines 249-250) and test before its loop
\* (lines 293-297); a quotient a / b is the pair <<a, b>>.
IdleTrain == [pc |-> "idle", losses |-> <<>>, log_interval |-> 1, i |-> 0,
              running_loss |-> 0, final_running_loss |-> <<0, 1>>]

IdleTest == [pc |-> "idle", loader |-> <<>>, k |-> 0, total |-> 0, correct |-> 0,
             targets_ |-> <<>>, pred_ |-> <<>>, raised |-> FALSE, result |-> None]

\* The attribute dictionary of an object on which nothing was assigned yet.
NoAttrs == [counter |-> None, finished_init |-> None, dataset |-> None,
            epoch_counter |-> None]

\* A weights handle: a view of the live parameters or a copy of their values.
WeightsValue(h) == IF h.alias THEN net[1] ELSE h.val

\* History kept for the claims: sum of the rounds requested by the run_epochs
\* calls that returned since the last reset_model (0 once a call has raised),
\* whether a call has raised since, the parameter values at the last return,
\* whether an infect_client returned normally with a pill and no cure_client
\* or reset_model came after it, and whether the last response is that of a
\* cure_client which directly followed an infect_client that returned normally.
InitHistory == [sum |-> 0, faulted |-> FALSE, w_ret |-> None, infected |-> FALSE,
                cure_after_infect |-> FALSE]

(***************************************************************************)
(* Construction: __init__ (lines 50-69).                                   *)
(***************************************************************************)
Init ==
    \E cuda \in BOOLEAN, available \in BOOLEAN, file \in Files :
        /\ file.w \in {0, 1}
        /\ file.exists => file.load_ok
        /\ fs = [p \in Paths |-> IF p = DefaultModelPath THEN file ELSE AbsentFile]
        /\ args = [distributed |-> FALSE, rank |-> None, world_size |-> None,
                    save_epochs |-> {}]
        /\ device = init_device(cuda, available)
        /\ net = load_default_model(fs).model
        /\ ld = [path |-> DefaultModelPath, result |-> Some(load_default_model(fs))]
        /\ finished_init = None
        /\ dataset = None
        /\ epoch_counter = None
        /\ optimizer = FreshOptimizer
        /\ scheduler = FreshScheduler
        /\ rnd = IdleRound
        /\ weights = None
        /\ ret = [op |-> "__init__", status |-> "ok", val |-> None]
        /\ coord_blocked = FALSE
        /\ gh = InitHistory
        /\ save_dir = None
        /\ counter = None
        /\ other = NoAttrs
        /\ tr = IdleTrain
        /\ te = IdleTest

(***************************************************************************)
(* Responses.  A handler that raises surfaces the error to the caller of   *)
(* rpc_sync; status names the exception.                                   *)
(***************************************************************************)
Response(op, status, val) == [op |-> op, status |-> status, val |-> val]

\* The tensors of a replaced model live on only through a handle that views them.
Detach(h) == IF h # None /\ h[1].alias /\ net # None
             THEN Some([alias |-> FALSE, val |-> net[1]])
             ELSE h

(***************************************************************************)
(* ping, is_ready, get_client_datasize: reads, no attribute is assigned.   *)
(***************************************************************************)
ping_value == "pong"

ping ==
    /\ CanInvoke
    /\ ping_value = "pong"
    /\ UNCHANGED vars

isReady ==
    /\ CanInvoke
    /\ is_ready \in BOOLEAN
    /\ UNCHANGED vars

\* len(self.dataset.get_train_sampler()): the batches of this client's partition.
SamplerLen(d) == NumBatches

\* lines 377-380: the sampler's length, or False when self.dataset is None
client_datasize == IF dataset # None THEN Some(SamplerLen(dataset[1])) ELSE Some(FALSE)

get_client_datasize ==
    /\ CanInvoke
    /\ client_datasize # None
    /\ UNCHANGED vars

(***************************************************************************)
(* init_dataloader(pill) (lines 152-166).  ok: the dataset constructor     *)
(* returns; ~ok: it raises and the except clause prints the traceback.     *)
(* Line 164 follows the try statement.                                     *)
(***************************************************************************)
init_dataloader(pill, ok) ==
    /\ UNCHANGED <<save_dir, counter, other, tr, te>>
    /\ CanInvoke
    /\ args' = [args EXCEPT !.distributed = TRUE, !.rank = Some(rank),
                            !.world_size = Some(world_size)]
    /\ dataset' = IF ok THEN Some(DistDataset(args', pill)) ELSE dataset
    /\ finished_init' = Some(TRUE)
    /\ ret' = Response("init_dataloader", "ok", IF ok THEN None ELSE Some("traceback"))
    /\ gh' = [gh EXCEPT !.cure_after_infect = FALSE]
    /\ coord_blocked' = remote_method(rnd.pc # "idle")
    /\ UNCHANGED <<epoch_counter, net, optimizer, scheduler, device, fs, rnd,
                   weights, ld>>

(***************************************************************************)
(* infect_client(pill) (lines 146-150) and cure_client() (lines 140-144).  *)
(* `del self.dataset` raises AttributeError when the instance has no       *)
(* dataset attribute; a constructor that raises leaves it deleted.         *)
(***************************************************************************)
infect_client(pill, ok) ==
    /\ UNCHANGED <<save_dir, counter, other, tr, te>>
    /\ CanInvoke
    /\ IF dataset = None
       THEN /\ ret' = Response("infect_client", "AttributeError", None)
            /\ UNCHANGED dataset
       ELSE IF ok
            THEN /\ dataset' = Some(DistDataset(args, pill))
                 /\ ret' = Response("infect_client", "ok", None)
            ELSE /\ dataset' = None
                 /\ ret' = Response("infect_client", "Exception", None)
    /\ gh' = [gh EXCEPT !.infected = IF ret'.status = "ok" THEN pill # NoPill ELSE @,
                        !.cure_after_infect = FALSE]
    /\ coord_blocked' = remote_method(rnd.pc # "idle")
    /\ UNCHANGED <<finished_init, epoch_counter, net, optimizer, scheduler, args,
                   device, fs, rnd, weights, ld>>

\* line 144 passing on the pill of the dataset it discards
cure_pill_of_old_dataset == IF dataset # None THEN dataset[1].pill ELSE NoPill

\* line 144: the pill argument of the constructor call is None
cure_pill == NoPill

cure_client(ok) ==
    /\ UNCHANGED <<save_dir, counter, other, tr, te>>
    /\ CanInvoke
    /\ IF dataset = None
       THEN /\ ret' = Response("cure_client", "AttributeError", None)
            /\ UNCHANGED dataset
       ELSE IF ok
            THEN /\ dataset' = Some(DistDataset(args, cure_pill))
                 /\ ret' = Response("cure_client", "ok", None)
            ELSE /\ dataset' = None
                 /\ ret' = Response("cure_client", "Exception", None)
    /\ gh' = [gh EXCEPT !.infected = FALSE,
                        !.cure_after_infect = (ret.op = "infect_client" /\ ret.status = "ok")]
    /\ coord_blocked' = remote_method(rnd.pc # "idle")
    /\ UNCHANGED <<finished_init, epoch_counter, net, optimizer, scheduler, args,
                   device, fs, rnd, weights, ld>>

(***************************************************************************)
(* reset_model() (lines 79-109).  The counter and the flag are cleared     *)
(* first; `del self.dataset` (line 92) and `del self.net` (line 94) raise  *)
(* AttributeError on a missing instance attribute; load_default_model may  *)
(* raise after self.net was deleted.                                       *)
(***************************************************************************)
reset_model ==
    /\ UNCHANGED <<save_dir, counter, other, tr, te>>
    /\ CanInvoke
    /\ epoch_counter' = Some(0)
    /\ finished_init' = Some(FALSE)
    /\ gh' = [gh EXCEPT !.sum = 0, !.faulted = FALSE, !.infected = FALSE,
                        !.cure_after_infect = FALSE]
    /\ coord_blocked' = remote_method(rnd.pc # "idle")
    /\ dataset' = None
    /\ IF dataset = None \/ net = None
       THEN /\ ret' = Response("reset_model", "AttributeError", None)
            /\ UNCHANGED <<net, optimizer, scheduler, weights, rnd, ld>>
       ELSE LET r == load_default_model(fs) IN
            /\ ld' = [path |-> DefaultModelPath, result |-> Some(r)]
            /\ weights' = Detach(weights)
            /\ rnd' = [rnd EXCEPT !.weights = Detach(@)]
            /\ net' = r.model
            /\ IF r.raised
               THEN /\ ret' = Response("reset_model", "Exception", None)
                    /\ UNCHANGED <<optimizer, scheduler>>
               ELSE /\ ret' = Response("reset_model", "ok", None)
                    /\ optimizer' = FreshOptimizer
                    /\ scheduler' = FreshScheduler
    /\ UNCHANGED <<args, device, fs>>

(***************************************************************************)
(* update_nn_parameters(new_params) (lines 226-236): load_state_dict       *)
(* copies the new values into the model's existing parameter tensors.      *)
(***************************************************************************)
update_nn_parameters(new_params) ==
    /\ UNCHANGED <<save_dir, counter, other, tr, te>>
    /\ CanInvoke
    /\ IF net = None
       THEN /\ ret' = Response("update_nn_parameters", "AttributeError", None)
            /\ UNCHANGED net
       ELSE /\ net' = Some(new_params)
            /\ ret' = Response("update_nn_parameters", "ok", None)
    /\ gh' = [gh EXCEPT !.cure_after_infect = FALSE]
    /\ coord_blocked' = remote_method(rnd.pc # "idle")
    /\ UNCHANGED <<finished_init, dataset, epoch_counter, optimizer, scheduler, args,
                   device, fs, rnd, weights, ld>>

(***************************************************************************)
(* PoisonPill hooks.  A batch is the trace of the hooks applied to its     *)
(* inputs and to its labels.                                               *)
(***************************************************************************)
RawBatch == [inputs |-> <<>>, labels |-> <<>>]

poison_input(pill, inputs) == Append(inputs, <<"poison_input", pill>>)

poison_output(pill, inputs, labels) ==
    [inputs |-> Append(inputs, <<"poison_output", pill>>),
     labels |-> Append(labels, <<"poison_output", pill>>)]

\* the hooks driven by the pill the dataset was built with
train_batch_by_dataset_pill(pill) ==
    IF dataset # None /\ dataset[1].pill # NoPill
    THEN poison_output(dataset[1].pill,
                       poison_input(dataset[1].pill, RawBatch.inputs), RawBatch.labels)
    ELSE RawBatch

\* lines 259-260 in the other order
train_batch_data_output_first(pill) ==
    IF pill # NoPill
    THEN LET b == poison_output(pill, RawBatch.inputs, RawBatch.labels)
         IN  [inputs |-> poison_input(pill, b.inputs), labels |-> b.labels]
    ELSE RawBatch

\* lines 256-260: the batch the forward pass sees
train_batch_data(pill) ==
    IF pill # NoPill
    THEN poison_output(pill, poison_input(pill, RawBatch.inputs), RawBatch.labels)
    ELSE RawBatch

\* line 336 with a constant increment
next_epoch_counter_by_one(c, num_epoch) == c + 1

\* line 336: self.epoch_counter += num_epoch
next_epoch_counter(c, num_epoch) == c + num_epoch

\* lines 300-303: the batch the forward pass of test sees
test_batch_data(pill) == RawBatch

\* line 271 and line 280
optimizer_step(o) == [o EXCEPT !.steps = @ + 1]

scheduler_no_step(s) == s

scheduler_step(s) == [s EXCEPT !.steps = @ + 1]

\* line 334 on a client whose dataset attribute evaluates to a dataset anyway
no_dataset_never(d) == FALSE

\* line 334: self.dataset evaluates to None, None has no get_train_sampler
no_dataset(d) == d = None

\* line 332 left out
run_epochs_keeps_flag == is_ready

\* line 332: self.finished_init = False
run_epochs_finished_init == FALSE

\* get_nn_parameters(): state_dict() holds the parameter tensors themselves.
get_nn_parameters == [alias |-> TRUE, val |-> 0]

\* lines 347-349: v.cpu().detach().  Tensor.cpu() copies a tensor that is on
\* another device and returns the tensor itself when it already is in host
\* memory; detach() shares the storage of the tensor it is called on.
cpu_detach(h, dev) ==
    IF h.alias /\ dev # "cpu" THEN [alias |-> FALSE, val |-> net[1]] ELSE h

Raise(op, status) ==
    /\ ret' = Response(op, status, None)
    /\ rnd' = IdleRound
    /\ gh' = [gh EXCEPT !.faulted = TRUE, !.sum = 0, !.cure_after_infect = FALSE]

(***************************************************************************)
(* run_epochs(num_epoch, pill), entry (lines 332-335) into train up to the *)
(* batch loop (lines 249-254).  self.dataset is None without an instance   *)
(* attribute: line 334 raises AttributeError.                              *)
(***************************************************************************)
run_epochs_begin(num_epoch, pill) ==
    /\ CanInvoke
    /\ rnd.pc = "idle"
    /\ EpochCounter + num_epoch <= MaxEpochCounter
    /\ dataset # None => optimizer.steps + NumBatches <= MaxOptSteps
    /\ finished_init' = Some(run_epochs_finished_init)
    /\ LET epoch == EpochCounter
           save == should_save_model(args, epoch)
       IN  IF no_dataset(dataset)
           THEN /\ Raise("run_epochs", "AttributeError")
                /\ UNCHANGED save_dir
           ELSE IF net = None
           THEN /\ Raise("run_epochs", "AttributeError")
                /\ save_dir' = IF save THEN mkdir(save_dir) ELSE save_dir
           ELSE /\ save_dir' = IF save
                                THEN save_model(save_dir, epoch, StartSuffix, net[1])
                                ELSE save_dir
                /\ rnd' = [pc |-> "train", n |-> num_epoch, pill |-> pill,
                           c0 |-> epoch, i |-> 0, log |-> <<>>, weights |-> None,
                           o0 |-> optimizer.steps, s0 |-> scheduler.steps,
                           trace |-> IF save
                                     THEN << <<"save_model",
                                               save_path(id, epoch, StartSuffix)>> >>
                                     ELSE <<>>]
                /\ UNCHANGED <<ret, gh>>
    /\ coord_blocked' = remote_method(rnd'.pc # "idle")
    /\ UNCHANGED <<dataset, epoch_counter, net, optimizer, scheduler, args, device,
                   fs, weights, ld>>
    /\ UNCHANGED <<counter, other, tr, te>>

(***************************************************************************)
(* One iteration of the batch loop (lines 255-278).  fault: the forward,   *)
(* backward or optimizer step raises; nothing in run_epochs catches it.    *)
(***************************************************************************)
train_batch(fault) ==
    /\ UNCHANGED <<save_dir, counter, other, tr, te>>
    /\ rnd.pc = "train"
    /\ rnd.i < NumBatches
    /\ IF fault \/ net = None
       THEN /\ Raise("run_epochs", "TrainingFault")
            /\ UNCHANGED <<net, optimizer>>
       ELSE /\ net' = Some(net[1] + 1)
            /\ optimizer' = optimizer_step(optimizer)
            /\ rnd' = [rnd EXCEPT !.i = @ + 1,
                                  !.log = Append(@, train_batch_data(rnd.pill)),
                                  !.trace = @ \o << <<"forward", train_batch_data(rnd.pill)>>,
                                                     <<"optimizer.step", rnd.i>> >>]
            /\ UNCHANGED <<ret, gh>>
    /\ coord_blocked' = remote_method(rnd'.pc # "idle")
    /\ UNCHANGED <<finished_init, dataset, epoch_counter, scheduler, args, device,
                   fs, weights, ld>>

(***************************************************************************)
(* End of train (lines 280-288) and the counter update (line 336).         *)
(***************************************************************************)
train_end ==
    /\ rnd.pc = "train"
    /\ rnd.i = NumBatches
    /\ scheduler' = scheduler_step(scheduler)
    /\ LET save == should_save_model(args, rnd.c0) IN
       /\ save_dir' = IF save THEN save_model(save_dir, rnd.c0, EndSuffix, net[1])
                              ELSE save_dir
       /\ rnd' = [rnd EXCEPT
                    !.pc = "test",
                    !.weights = Some(get_nn_parameters),
                    !.trace = Append(@, <<"scheduler.step">>) \o
                              (IF save
                               THEN << <<"save_model", save_path(id, rnd.c0, EndSuffix)>> >>
                               ELSE <<>>)]
    /\ epoch_counter' = Some(next_epoch_counter(EpochCounter, rnd.n))
    /\ coord_blocked' = remote_method(rnd'.pc # "idle")
    /\ UNCHANGED <<finished_init, dataset, net, optimizer, args, device, fs,
                   weights, ret, ld, gh>>
    /\ UNCHANGED <<counter, other, tr, te>>

(***************************************************************************)
(* test() (lines 290-327).  fault: the pass raises (a compute fault, or    *)
(* the division of line 314 on an empty test partition).                   *)
(***************************************************************************)
test_pass(fault) ==
    /\ UNCHANGED <<save_dir, counter, other, tr, te>>
    /\ rnd.pc = "test"
    /\ IF fault \/ dataset = None \/ net = None
       THEN Raise("run_epochs", "EvaluationFault")
       ELSE /\ rnd' = [rnd EXCEPT !.pc = "tested",
                                  !.trace = Append(@, <<"test", test_batch_data(rnd.pill)>>)]
            /\ UNCHANGED <<ret, gh>>
    /\ coord_blocked' = remote_method(rnd'.pc # "idle")
    /\ UNCHANGED <<finished_init, dataset, epoch_counter, net, optimizer, scheduler,
                   args, device, fs, weights, ld>>

(***************************************************************************)
(* run_epochs, return (lines 345-350).                                     *)
(***************************************************************************)
run_epochs_return ==
    /\ UNCHANGED <<save_dir, counter, other, tr, te>>
    /\ rnd.pc = "tested"
    /\ net # None
    /\ weights' = Some(cpu_detach(rnd.weights[1], device))
    /\ ret' = Response("run_epochs", "ok",
                       Some([round |-> EpochCounter, requested |-> rnd.n,
                             before |-> rnd.c0]))
    /\ gh' = [gh EXCEPT !.sum = IF gh.faulted THEN 0 ELSE @ + rnd.n, !.w_ret = net,
                        !.cure_after_infect = FALSE]
    /\ rnd' = IdleRound
    /\ coord_blocked' = remote_method(rnd'.pc # "idle")
    /\ UNCHANGED <<finished_init, dataset, epoch_counter, net, optimizer, scheduler,
                   args, device, fs, ld>>

(***************************************************************************)
(* The federator drives the client through _remote_method, one invocation  *)
(* at a time.                                                              *)
(***************************************************************************)
Next ==
    \/ ping
    \/ isReady
    \/ get_client_datasize
    \/ \E pill \in PillArgs, ok \in BOOLEAN : init_dataloader(pill, ok)
    \/ \E pill \in PillArgs, ok \in BOOLEAN : infect_client(pill, ok)
    \/ \E ok \in BOOLEAN : cure_client(ok)
    \/ reset_model
    \/ \E w \in NewParams : update_nn_parameters(w)
    \/ \E n \in 1..MaxNumEpoch, pill \in PillArgs : run_epochs_begin(n, pill)
    \/ \E fault \in BOOLEAN : train_batch(fault)
    \/ train_end
    \/ \E fault \in BOOLEAN : test_pass(fault)
    \/ run_epochs_return

Spec == Init /\ [][Next]_vars

(***************************************************************************)
(* The checkpoint loader on its own: a storage with any files, and one     *)
(* load_model_from_file(path) call made while the client is constructed    *)
(* (line 61: set_net(load_default_model()), before which self.net is None).*)
(***************************************************************************)
InitLoad ==
    /\ fs \in [Paths -> Files]
    /\ ld \in [path : Paths, result : {None}]
    /\ args = [distributed |-> FALSE, rank |-> None, world_size |-> None,
                save_epochs |-> {}]
    /\ device = "cpu"
    /\ net = None
    /\ finished_init = None
    /\ dataset = None
    /\ epoch_counter = None
    /\ optimizer = FreshOptimizer
    /\ scheduler = FreshScheduler
    /\ rnd = IdleRound
    /\ weights = None
    /\ ret = [op |-> "__init__", status |-> "ok", val |-> None]
    /\ coord_blocked = FALSE
    /\ gh = InitHistory
    /\ save_dir = None
    /\ counter = None
    /\ other = NoAttrs
    /\ tr = IdleTrain
    /\ te = IdleTest

load_call ==
    /\ UNCHANGED <<save_dir, counter, other, tr, te>>
    /\ ld.result = None
    /\ LET r == load_model_from_file(fs, ld.path) IN
       /\ ld' = [ld EXCEPT !.result = Some(r)]
       /\ net' = r.model
       /\ ret' = Response("__init__", IF r.raised THEN "Exception" ELSE "ok", None)
    /\ UNCHANGED <<finished_init, dataset, epoch_counter, optimizer, scheduler, args,
                   device, fs, rnd, weights, coord_blocked, gh>>

NextLoad == load_call

SpecLoad == InitLoad /\ [][NextLoad]_vars

(***************************************************************************)
(* A client as constructed on a cpu device with no default model file:     *)
(* the start of the specifications of the single passes below.             *)
(***************************************************************************)
ClientOnCpu ==
    /\ fs = [p \in Paths |-> AbsentFile]
    /\ device = init_device(FALSE, FALSE)
    /\ net = load_default_model(fs).model
    /\ ld = [path |-> DefaultModelPath, result |-> Some(load_default_model(fs))]
    /\ finished_init = None
    /\ dataset = None
    /\ epoch_counter = None
    /\ optimizer = FreshOptimizer
    /\ scheduler = FreshScheduler
    /\ rnd = IdleRound
    /\ weights = None
    /\ ret = [op |-> "__init__", status |-> "ok", val |-> None]
    /\ coord_blocked = FALSE
    /\ gh = InitHistory

(***************************************************************************)
(* Two Client objects in one process.  Each object has its own attribute   *)
(* dictionary; an attribute missing from it is looked up on the class.     *)
(* The variables finished_init, dataset, epoch_counter and counter are the *)
(* dictionary of the object the federator drives ("self"), other is the    *)
(* dictionary of a second object ("other").                                *)
(***************************************************************************)
\* one dictionary behind every object, as for state kept on the class
instance_dict_shared(obj) ==
    [counter |-> counter, finished_init |-> finished_init, dataset |-> dataset,
     epoch_counter |-> epoch_counter]

instance_dict(obj) ==
    IF obj = "self"
    THEN [counter |-> counter, finished_init |-> finished_init, dataset |-> dataset,
          epoch_counter |-> epoch_counter]
    ELSE other

\* what is_ready(), self.epoch_counter, self.counter and
\* get_client_datasize() evaluate to on an object (the size as printed)
Observed(obj) ==
    LET d == instance_dict(obj) IN
    [is_ready |-> GetAttr(d.finished_init, class_finished_init),
     epoch_counter |-> GetAttr(d.epoch_counter, class_epoch_counter),
     counter |-> GetAttr(d.counter, class_counter),
     datasize |-> IF d.dataset # class_dataset THEN ToString(SamplerLen(d.dataset[1]))
                                               ELSE ToString(FALSE)]

\* rpc_test() (lines 119-126): self.counter += 1 reads the attribute (the
\* class attribute the first time) and assigns it on the instance; the log
\* lines are fire-and-forget.
rpc_test ==
    /\ CanInvoke
    /\ GetAttr(counter, class_counter) < MaxCalls
    /\ counter' = Some(GetAttr(counter, class_counter) + 1)
    /\ ret' = Response("rpc_test", "ok", None)
    /\ gh' = [gh EXCEPT !.cure_after_infect = FALSE]
    /\ coord_blocked' = remote_method(rnd.pc # "idle")
    /\ UNCHANGED <<finished_init, dataset, epoch_counter, net, optimizer, scheduler,
                   args, device, fs, rnd, weights, ld, save_dir, other, tr, te>>

\* dictionaries a second object can have: as constructed, after
\* init_dataloader, after a round, after rpc_test, after reset_model
PeerDataset ==
    DistDataset([distributed |-> TRUE, rank |-> Some(rank),
                 world_size |-> Some(world_size)], NoPill)

PeerDicts ==
    { NoAttrs,
      [NoAttrs EXCEPT !.finished_init = Some(TRUE), !.dataset = Some(PeerDataset)],
      [NoAttrs EXCEPT !.finished_init = Some(FALSE), !.dataset = Some(PeerDataset),
                      !.epoch_counter = Some(1)],
      [NoAttrs EXCEPT !.counter = Some(1)],
      [NoAttrs EXCEPT !.finished_init = Some(FALSE), !.epoch_counter = Some(0)] }

InitPeer ==
    /\ ClientOnCpu
    /\ args = [distributed |-> FALSE, rank |-> None, world_size |-> None,
                save_epochs |-> {}]
    /\ save_dir = None
    /\ counter = None
    /\ other \in PeerDicts
    /\ tr = IdleTrain
    /\ te = IdleTest

NextPeer ==
    \/ \E ok \in BOOLEAN : init_dataloader(NoPill, ok)
    \/ \E pill \in Pills, ok \in BOOLEAN : infect_client(pill, ok)
    \/ \E ok \in BOOLEAN : cure_client(ok)
    \/ reset_model
    \/ rpc_test
    \/ \E n \in 1..MaxNumEpoch : run_epochs_begin(n, NoPill)
    \/ \E fault \in BOOLEAN : train_batch(fault)
    \/ train_end
    \/ \E fault \in BOOLEAN : test_pass(fault)
    \/ run_epochs_return

SpecPeer == InitPeer /\ [][NextPeer]_vars

(***************************************************************************)
(* The client under a configuration that saves checkpoints: the policy     *)
(* triggers for any set of the epochs a round can start at, and the save   *)
(* folder exists or not when the client is constructed.                    *)
(***************************************************************************)
SavePolicies == SUBSET (0..(MaxEpochCounter - 1))

InitSave ==
    /\ ClientOnCpu
    /\ \E policy \in SavePolicies :
          args = [distributed |-> FALSE, rank |-> None, world_size |-> None,
                  save_epochs |-> policy]
    /\ save_dir \in {None, Some({})}
    /\ counter = None
    /\ other = NoAttrs
    /\ tr = IdleTrain
    /\ te = IdleTest

\* the operations that bear on checkpoints: the dataset set-up, the round
\* and the reset, without pill
NextSave ==
    \/ \E ok \in BOOLEAN : init_dataloader(NoPill, ok)
    \/ reset_model
    \/ \E n \in 1..MaxNumEpoch : run_epochs_begin(n, NoPill)
    \/ \E fault \in BOOLEAN : train_batch(fault)
    \/ train_end
    \/ \E fault \in BOOLEAN : test_pass(fault)
    \/ run_epochs_return

SpecSave == InitSave /\ [][NextSave]_vars

(***************************************************************************)
(* test() (lines 290-327) on its own.  A sample is <<label, predicted>>,   *)
(* predicted being the arg-max of the model's output for it; a batch is a  *)
(* sequence of samples and the test loader a sequence of batches.          *)
(***************************************************************************)
Classes == {0, 1}

RECURSIVE Repeat(_, _)
Repeat(x, n) == IF n = 0 THEN <<>> ELSE <<x>> \o Repeat(x, n - 1)

RECURSIVE SumSeq(_)
SumSeq(q) == IF q = <<>> THEN 0 ELSE q[1] + SumSeq(Tail(q))

TestBatches ==
    {<< <<t, q>> >> : t \in Classes, q \in Classes} \cup
    { Repeat(<<0, 0>>, 8) \o Repeat(<<0, 1>>, 2),
      Repeat(<<1, 0>>, 1) \o Repeat(<<1, 1>>, 9) }

TestLoaders == UNION {[1..n -> TestBatches] : n \in 0..MaxTestBatches}

\* line 314 as a fraction of 1
accuracy_as_fraction(correct, total) == <<correct, total>>

\* line 314: accuracy = 100 * correct / total
accuracy(correct, total) == <<100 * correct, total>>

\* the labels of sklearn's confusion_matrix: the values that occur in either
\* list, in ascending order
RECURSIVE SortedLabels(_)
SortedLabels(S) ==
    IF S = {} THEN <<>>
    ELSE LET m == CHOOSE x \in S : \A y \in S : x <= y
         IN  <<m>> \o SortedLabels(S \ {m})

\* line 315: confusion_matrix(targets_, pred_)[i][j] counts the samples whose
\* true label is the i-th label and whose predicted label is the j-th
confusion_matrix(targets, preds) ==
    LET labels == SortedLabels({targets[k] : k \in 1..Len(targets)} \cup
                               {preds[k] : k \in 1..Len(preds)})
        n == Len(labels)
    IN  [i \in 1..n |-> [j \in 1..n |->
            Cardinality({k \in 1..Len(targets) :
                            targets[k] = labels[i] /\ preds[k] = labels[j]})]]

\* np.sum(confusion_mat, axis=0)[j] and np.sum(confusion_mat, axis=1)[i]
sum_axis0(M, j) == SumSeq([r \in 1..Len(M) |-> M[r][j]])
sum_axis1(M, i) == SumSeq(M[i])

\* line 368 dividing by the sums along axis 1
calculate_class_precision_axis1(M) ==
    [i \in 1..Len(M) |-> <<M[i][i], sum_axis1(M, i)>>]

\* line 368: np.diagonal(confusion_mat) / np.sum(confusion_mat, axis=0)
calculate_class_precision(M) ==
    [i \in 1..Len(M) |-> <<M[i][i], sum_axis0(M, i)>>]

\* line 374: np.diagonal(confusion_mat) / np.sum(confusion_mat, axis=1)
calculate_class_recall(M) ==
    [i \in 1..Len(M) |-> <<M[i][i], sum_axis1(M, i)>>]

InitTest ==
    /\ ClientOnCpu
    /\ args = [distributed |-> FALSE, rank |-> None, world_size |-> None,
                save_epochs |-> {}]
    /\ save_dir = None
    /\ counter = None
    /\ other = NoAttrs
    /\ tr = IdleTrain
    /\ te \in {[IdleTest EXCEPT !.pc = "loop", !.loader = l] : l \in TestLoaders}

\* one iteration of the loop of lines 300-312
test_batch ==
    /\ te.pc = "loop"
    /\ te.k < Len(te.loader)
    /\ LET b == te.loader[te.k + 1]
           labels == [j \in 1..Len(b) |-> b[j][1]]
           predicted == [j \in 1..Len(b) |-> b[j][2]]
       IN  te' = [te EXCEPT
                    !.k = @ + 1,
                    !.total = @ + Len(labels),
                    !.correct = @ + Cardinality({j \in 1..Len(b) :
                                                    predicted[j] = labels[j]}),
                    !.targets_ = @ \o labels,
                    !.pred_ = @ \o predicted]
    /\ UNCHANGED <<finished_init, dataset, epoch_counter, net, optimizer, scheduler,
                   args, device, fs, rnd, weights, ret, coord_blocked, ld, gh,
                   save_dir, counter, other, tr>>

\* lines 314-327: the division of line 314 raises ZeroDivisionError on
\* total = 0, before anything else is computed
test_metrics ==
    /\ te.pc = "loop"
    /\ te.k = Len(te.loader)
    /\ IF te.total = 0
       THEN te' = [te EXCEPT !.pc = "done", !.raised = TRUE]
       ELSE LET confusion_mat == confusion_matrix(te.targets_, te.pred_) IN
            te' = [te EXCEPT
                     !.pc = "done",
                     !.result = Some([accuracy |-> accuracy(te.correct, te.total),
                                      confusion_mat |-> confusion_mat,
                                      class_precision |->
                                          calculate_class_precision(confusion_mat),
                                      class_recall |->
                                          calculate_class_recall(confusion_mat)])]
    /\ UNCHANGED <<finished_init, dataset, epoch_counter, net, optimizer, scheduler,
                   args, device, fs, rnd, weights, ret, coord_blocked, ld, gh,
                   save_dir, counter, other, tr>>

NextTest == test_batch \/ test_metrics

SpecTest == InitTest /\ [][NextTest]_vars

(***************************************************************************)
(* The loss bookkeeping of train (lines 249-250, 274-278, 288) on its own: *)
(* the per-batch losses of one pass and the configured log interval.       *)
(***************************************************************************)
LossValues == {1, 2}

InitLoss ==
    /\ ClientOnCpu
    /\ args = [distributed |-> FALSE, rank |-> None, world_size |-> None,
                save_epochs |-> {}]
    /\ save_dir = None
    /\ counter = None
    /\ other = NoAttrs
    /\ te = IdleTest
    /\ \E B \in 1..MaxLossBatches, L \in 1..MaxLogInterval :
          tr \in {[IdleTrain EXCEPT !.pc = "loop", !.losses = l, !.log_interval = L] :
                    l \in [1..B -> LossValues]}

\* lines 274-278 for batch i = tr.i (enumerate counts from 0)
loss_batch ==
    /\ tr.pc = "loop"
    /\ tr.i < Len(tr.losses)
    /\ LET running_loss == tr.running_loss + tr.losses[tr.i + 1] IN
       IF tr.i % tr.log_interval = 0
       THEN tr' = [tr EXCEPT !.i = @ + 1,
                             !.final_running_loss = <<running_loss, tr.log_interval>>,
                             !.running_loss = 0]
       ELSE tr' = [tr EXCEPT !.i = @ + 1, !.running_loss = running_loss]
    /\ UNCHANGED <<finished_init, dataset, epoch_counter, net, optimizer, scheduler,
                   args, device, fs, rnd, weights, ret, coord_blocked, ld, gh,
                   save_dir, counter, other, te>>

\* line 288: return final_running_loss
loss_return ==
    /\ tr.pc = "loop"
    /\ tr.i = Len(tr.losses)
    /\ tr' = [tr EXCEPT !.pc = "done"]
    /\ UNCHANGED <<finished_init, dataset, epoch_counter, net, optimizer, scheduler,
                   args, device, fs, rnd, weights, ret, coord_blocked, ld, gh,
                   save_dir, counter, other, te>>

NextLoss == loss_batch \/ loss_return

SpecLoss == InitLoss /\ [][NextLoss]_vars

(***************************************************************************)
(* Claims.                                                                 *)
(***************************************************************************)
InitStep(ok) == \E pill \in PillArgs : init_dataloader(pill, ok)
RoundEntry == \E n \in 1..MaxNumEpoch, pill \in PillArgs : run_epochs_begin(n, pill)
InRound == rnd.pc \in {"train", "test", "tested"}
Returned(op) == ret.op = op /\ ret.status = "ok"

\* C1: is_ready() is false in every state before an init_dataloader whose
\* dataset construction succeeded: the flag turns true only in a step of an
\* init_dataloader whose construction succeeded, so a construction that
\* raises leaves it false.
C1_ReadyOnlyBySuccessfulInit ==
    [][(~is_ready /\ is_ready') => InitStep(TRUE)]_vars

\* C2 as claimed: once a dataset was built and the client is ready, the flag
\* is cleared only by reset_model or by a re-init whose construction raises;
\* in particular no step of run_epochs clears it.
C2_ReadyUntilResetOrFailedInit ==
    [][(is_ready /\ dataset # None /\ ~is_ready') => (reset_model \/ InitStep(FALSE))]_vars

\* C2 as amended: after a successful init_dataloader is_ready() is true; the
\* flag is cleared only by reset_model or by the entry of run_epochs, the
\* entry of run_epochs always clears it, and only init_dataloader sets it
\* again, so it is false during and after every round until the next init.
C2_ReadyUntilResetOrRound ==
    [][ /\ InitStep(TRUE) => is_ready'
        /\ (is_ready /\ ~is_ready') => (reset_model \/ RoundEntry)
        /\ RoundEntry => ~is_ready'
        /\ (~is_ready /\ is_ready') => (InitStep(TRUE) \/ InitStep(FALSE)) ]_vars

C2_Witness ==
    /\ Returned("run_epochs")
    /\ rnd.pc = "idle"
    /\ dataset # None
    /\ ~is_ready

\* C3: a run_epochs(n) that returns, entered with counter c, returns an
\* EpochData with round = c + n and leaves the counter at c + n; while every
\* run_epochs call since the last reset_model has returned, the counter is
\* the sum of the rounds they requested.
C3_RoundCounter ==
    /\ [][run_epochs_return =>
            /\ ret'.val[1].round = rnd.c0 + rnd.n
            /\ EpochCounter' = rnd.c0 + rnd.n]_vars
    /\ []((~gh.faulted /\ rnd.pc \in {"idle", "train"}) => EpochCounter = gh.sum)

C3_Witness ==
    /\ Returned("run_epochs")
    /\ rnd.pc = "idle"
    /\ ~gh.faulted
    /\ ret.val[1].before = 1
    /\ ret.val[1].requested = 1
    /\ EpochCounter = 2
    /\ gh.sum = 2

\* the batch both hooks of pill were applied to, poison_input first
Poisoned(pill) ==
    [inputs |-> << <<"poison_input", pill>>, <<"poison_output", pill>> >>,
     labels |-> << <<"poison_output", pill>> >>]

\* C4 as claimed: in a round run while the client is infected both hooks are
\* applied to every training batch, and in a round run while it is not
\* infected no hook is applied to any batch.
C4_HooksFollowInfectedState ==
    InRound =>
        \A k \in 1..Len(rnd.log) :
            IF gh.infected THEN rnd.log[k] \in {Poisoned(p) : p \in Pills}
                           ELSE rnd.log[k] = RawBatch

\* C4 as amended: in a round both hooks of the pill run_epochs was invoked
\* with are applied to every training batch, and no hook is applied to any
\* batch of a round invoked without a pill, whatever infect_client and
\* cure_client did before.
C4_HooksFollowRoundPill ==
    InRound =>
        /\ Len(rnd.log) = rnd.i
        /\ \A k \in 1..Len(rnd.log) :
              rnd.log[k] = IF rnd.pill # NoPill THEN Poisoned(rnd.pill) ELSE RawBatch

C4_Witness ==
    /\ rnd.pc = "test"
    /\ gh.infected
    /\ rnd.pill = NoPill
    /\ Len(rnd.log) = NumBatches
    /\ \A k \in 1..NumBatches : rnd.log[k] = RawBatch

\* the dataset init_dataloader() builds without a pill for this client
CleanDataset ==
    [pill |-> NoPill, rank |-> Some(rank), world_size |-> Some(world_size),
     distributed |-> TRUE]

\* C5: after an infect_client(pill) that returned and a cure_client() that
\* directly followed it and returned, the dataset is the one a client of the
\* same configuration builds by init_dataloader() without a pill.
C5_InfectThenCure ==
    (Returned("cure_client") /\ gh.cure_after_infect) => dataset = Some(CleanDataset)

C5_Witness ==
    /\ Returned("cure_client")
    /\ gh.cure_after_infect
    /\ dataset = Some(CleanDataset)

\* C6: the values held in the weights run_epochs returned stay the values the
\* parameters had at the moment of the return, whatever is invoked later.
C6_ReturnedWeightsIndependent ==
    weights # None => WeightsValue(weights[1]) = gh.w_ret[1]

\* C7: every reset_model leaves counter 0, flag false, no dataset (the size
\* query reports none), model, optimizer and scheduler as built at
\* construction, and configuration and device as they were.
C7_ResetRestoresConstruction ==
    [][reset_model =>
          /\ EpochCounter' = 0
          /\ ~is_ready'
          /\ dataset' = None
          /\ client_datasize' = Some(FALSE)
          /\ net' = load_default_model(fs).model
          /\ optimizer' = FreshOptimizer
          /\ scheduler' = FreshScheduler
          /\ UNCHANGED <<args, device>>]_vars

\* C8: whenever the ready flag is true the client holds a dataset.
C8_ReadyImpliesDataset == is_ready => dataset # None

LifecycleStep ==
    \/ \E pill \in PillArgs, ok \in BOOLEAN : init_dataloader(pill, ok)
    \/ \E pill \in PillArgs, ok \in BOOLEAN : infect_client(pill, ok)
    \/ \E ok \in BOOLEAN : cure_client(ok)
    \/ reset_model
    \/ \E w \in NewParams : update_nn_parameters(w)

\* C9: with the federator invoking through the blocking _remote_method, one
\* call at a time, no init_dataloader, infect_client, cure_client,
\* reset_model or update_nn_parameters step is taken while a run_epochs is
\* in its training or evaluation phase.
C9_NoLifecycleStepInRound ==
    [][LifecycleStep => ~InRound]_vars

C9_Witness ==
    /\ rnd.pc = "test"
    /\ coord_blocked
    /\ Returned("infect_client")

\* C10: load_model_from_file on an absent path returns a freshly constructed
\* model, warns and does not raise; on an existing path whose first load
\* fails it retries exactly once with map_location = cpu, and raises exactly
\* when that retry fails; a first load that succeeds is not retried.
C10_BestEffortLoad ==
    ld.result # None =>
        LET r == ld.result[1]
            f == fs[ld.path]
        IN  /\ ~f.exists =>
                 /\ ~r.raised
                 /\ r.model = Some(InitW)
                 /\ r.attempts = <<>>
                 /\ r.warnings = <<WarnCouldNotFind>>
            /\ (f.exists /\ f.load_ok) =>
                 /\ ~r.raised
                 /\ r.model = Some(f.w)
                 /\ r.attempts = <<"load">>
                 /\ r.warnings = <<>>
            /\ (f.exists /\ ~f.load_ok) =>
                 /\ r.attempts = <<"load", "load_map_cpu">>
                 /\ r.warnings = <<WarnCouldNotLoad>>
                 /\ r.raised = ~f.cpu_ok
                 /\ ~r.raised => r.model = Some(f.w)

C10_Witness ==
    /\ ld.result # None
    /\ fs[ld.path].exists
    /\ ~fs[ld.path].load_ok
    /\ fs[ld.path].cpu_ok
    /\ ~ld.result[1].raised
    /\ Len(ld.result[1].attempts) = 2

\* quotients a / b as pairs <<a, b>> with b > 0
RatEq(x, y) == x[1] * y[2] = y[1] * x[2]
RatLe(x, y) == x[1] * y[2] <= y[1] * x[2]

\* the samples the test loader yields, in order
RECURSIVE Flatten(_)
Flatten(l) == IF l = <<>> THEN <<>> ELSE l[1] \o Flatten(Tail(l))
TestSamples == Flatten(te.loader)
NumCorrect == Cardinality({k \in 1..Len(TestSamples) : TestSamples[k][1] = TestSamples[k][2]})

\* C11: an evaluation pass over total > 0 samples has 0 <= correct <= total
\* (total the number of samples, correct the number predicted right) and
\* returns accuracy = 100 * correct / total, between 0 and 100; over no
\* sample it raises at the division and returns no accuracy.
C11_AccuracyBounds ==
    te.pc = "done" =>
        /\ te.total = Len(TestSamples)
        /\ te.correct = NumCorrect
        /\ IF te.total > 0
           THEN /\ 0 <= te.correct /\ te.correct <= te.total
                /\ ~te.raised
                /\ te.result # None
                /\ te.result[1].accuracy[2] # 0
                /\ RatEq(te.result[1].accuracy, <<100 * NumCorrect, Len(TestSamples)>>)
                /\ RatLe(<<0, 1>>, te.result[1].accuracy)
                /\ RatLe(te.result[1].accuracy, <<100, 1>>)
           ELSE /\ te.raised
                /\ te.result = None

C11_Witness ==
    /\ te.pc = "done"
    /\ te.total = 3
    /\ te.correct = 2
    /\ te.result # None
    /\ RatEq(te.result[1].accuracy, <<200, 3>>)

C11_WitnessEmpty ==
    /\ te.pc = "done"
    /\ te.total = 0
    /\ te.raised

\* the matrix of true class (row) by predicted class (column) of the samples
\* labelled or predicted with the classes in ascending order
ScenarioMatrix == << <<8, 2>>, <<1, 9>> >>

\* C12: for the confusion matrix M of an evaluation pass, its entry [i][j]
\* being the number of samples of true class i predicted as class j, with
\* non-zero row and column sums: precision[i] = M[i][i] / (sum of column i)
\* and recall[i] = M[i][i] / (sum of row i) in class order; M = [[8,2],[1,9]]
\* gives precision [8/9, 9/11], recall [8/10, 9/10], accuracy 85 with
\* total 20 and correct 17.
C12_PrecisionRecall ==
    (te.pc = "done" /\ te.result # None) =>
        LET r == te.result[1]
            M == r.confusion_mat
            cls == SortedLabels({TestSamples[k][1] : k \in 1..Len(TestSamples)} \cup
                                {TestSamples[k][2] : k \in 1..Len(TestSamples)})
            Count(t, q) == Cardinality({k \in 1..Len(TestSamples) :
                                           TestSamples[k] = <<t, q>>})
            ColSum(j) == SumSeq([i \in 1..Len(M) |-> Count(cls[i], cls[j])])
            RowSum(i) == SumSeq([j \in 1..Len(M) |-> Count(cls[i], cls[j])])
        IN  /\ Len(M) = Len(cls)
            /\ \A i \in 1..Len(M) : Len(M[i]) = Len(M)
            /\ \A i, j \in 1..Len(M) : M[i][j] = Count(cls[i], cls[j])
            /\ Len(r.class_precision) = Len(M) /\ Len(r.class_recall) = Len(M)
            /\ \A i \in 1..Len(M) :
                  /\ ColSum(i) # 0 =>
                        /\ r.class_precision[i][2] # 0
                        /\ RatEq(r.class_precision[i], <<M[i][i], ColSum(i)>>)
                  /\ RowSum(i) # 0 =>
                        /\ r.class_recall[i][2] # 0
                        /\ RatEq(r.class_recall[i], <<M[i][i], RowSum(i)>>)
            /\ M = ScenarioMatrix =>
                  /\ RatEq(r.class_precision[1], <<8, 9>>)
                  /\ RatEq(r.class_precision[2], <<9, 11>>)
                  /\ RatEq(r.class_recall[1], <<8, 10>>)
                  /\ RatEq(r.class_recall[2], <<9, 10>>)
                  /\ te.total = 20 /\ te.correct = 17
                  /\ RatEq(r.accuracy, <<85, 1>>)

C12_Witness ==
    /\ te.pc = "done"
    /\ te.result # None
    /\ te.result[1].confusion_mat = ScenarioMatrix
    /\ te.result[1].class_precision = << <<8, 9>>, <<9, 11>> >>
    /\ te.result[1].class_recall = << <<8, 10>>, <<9, 10>> >>

\* the steps of a round that are not checkpoint writes
RoundSteps(trace) == SelectSeq(trace, LAMBDA e : e[1] # "save_model")

EvalStep == \E fault \in BOOLEAN : test_pass(fault)

\* C13: in every run_epochs call, whatever num_epoch, the optimizer steps of
\* the call are the NumBatches steps of one pass over the train loader and
\* all precede its one scheduler step; the evaluation pass starts after the
\* scheduler step, happens once and steps neither optimizer nor scheduler;
\* a call that returns produces one EpochData.
C13_OneTrainingOneEvaluation ==
    /\ [](InRound =>
            /\ optimizer.steps = rnd.o0 + rnd.i
            /\ rnd.i <= NumBatches
            /\ scheduler.steps = rnd.s0 + (IF rnd.pc = "train" THEN 0 ELSE 1)
            /\ rnd.pc \in {"test", "tested"} => rnd.i = NumBatches)
    /\ [][EvalStep => UNCHANGED <<optimizer, scheduler, net>>]_vars
    /\ [][run_epochs_return =>
            /\ UNCHANGED <<optimizer, scheduler, net>>
            /\ LET t == RoundSteps(rnd.trace) IN
               /\ Len(t) = 2 * NumBatches + 2
               /\ \A k \in 1..NumBatches :
                     /\ t[2 * k - 1][1] = "forward"
                     /\ t[2 * k] = <<"optimizer.step", k - 1>>
               /\ t[2 * NumBatches + 1] = <<"scheduler.step">>
               /\ t[2 * NumBatches + 2][1] = "test"
            /\ Len(ret'.val) = 1
            /\ optimizer.steps = rnd.o0 + NumBatches
            /\ scheduler.steps = rnd.s0 + 1]_vars
    /\ [][(InRound /\ ~InRound') =>
            \/ run_epochs_return
            \/ (ret'.op = "run_epochs" /\ ret'.status # "ok" /\ ret'.val = None)]_vars

C13_Witness ==
    /\ Returned("run_epochs")
    /\ rnd.pc = "idle"
    /\ ret.val[1].requested = 2
    /\ optimizer.steps = NumBatches
    /\ scheduler.steps = 1

\* C14: in a training pass run with a pill, the batch every forward pass
\* receives has had poison_input applied first and poison_output applied to
\* its result (the labels come from poison_output), and the optimizer step
\* of the batch follows that forward pass; the batch the evaluation pass
\* feeds to the model has had no hook applied.
C14_HookOrder ==
    \A k \in 1..Len(rnd.trace) :
        LET e == rnd.trace[k] IN
        /\ (e[1] = "forward" /\ rnd.pill # NoPill) =>
              /\ e[2].inputs = << <<"poison_input", rnd.pill>>,
                                  <<"poison_output", rnd.pill>> >>
              /\ e[2].labels = << <<"poison_output", rnd.pill>> >>
              /\ k < Len(rnd.trace)
              /\ rnd.trace[k + 1][1] = "optimizer.step"
        /\ e[1] = "optimizer.step" => (k > 1 /\ rnd.trace[k - 1][1] = "forward")
        /\ e[1] = "test" => (e[2].inputs = <<>> /\ e[2].labels = <<>>)

C14_Witness ==
    /\ rnd.pc = "tested"
    /\ rnd.pill \in Pills
    /\ Len(RoundSteps(rnd.trace)) = 2 * NumBatches + 2
    /\ rnd.trace[1] = <<"forward", Poisoned(rnd.pill)>>
    /\ rnd.trace[Len(rnd.trace)] = <<"test", RawBatch>>

\* the sum of the losses of batches a..b (counted from 1) of the pass
WindowSum(a, b) == SumSeq([k \in 1..(b - a + 1) |-> tr.losses[a + k - 1]])

\* C15: the loss a training pass returns is the mean of log_interval batch
\* losses: there is a batch e, the last one at which the loss is logged, at
\* least log_interval batches into the pass, and the returned loss is the
\* sum of the losses of the log_interval batches ending at e divided by
\* log_interval; this for every pass of B >= 1 batches and every
\* log_interval >= 1.
C15_WindowedMean ==
    tr.pc = "done" =>
        LET B == Len(tr.losses)
            L == tr.log_interval
        IN  \E e \in L..B :
                /\ (e - 1) % L = 0
                /\ \A later \in (e + 1)..B : (later - 1) % L # 0
                /\ RatEq(tr.final_running_loss, <<WindowSum(e - L + 1, e), L>>)

\* the checkpoint paths of round index r for client c1 under the save root
StartPath(r) == "models/model_c1_" \o ToString(r) \o "_start.model"
EndPath(r) == "models/model_c1_" \o ToString(r) \o "_end.model"
Triggers(r) == r \in args.save_epochs
SavedFiles(d) == IF d = None THEN {} ELSE d[1]

\* the step writes the current parameters to path p and nothing else
WritesOnly(p) ==
    /\ save_dir' # None
    /\ [path |-> p, w |-> net[1]] \in SavedFiles(save_dir')
    /\ \A f \in SavedFiles(save_dir') : f.path = p => f.w = net[1]
    /\ {f \in SavedFiles(save_dir') : f.path # p} = {f \in SavedFiles(save_dir) : f.path # p}

\* C16: when the policy triggers for the round counter r at the call, a
\* run_epochs that enters training writes the parameters to
\* models/model_c1_<r>_start.model before any optimizer step of the round,
\* and to models/model_c1_<r>_end.model after the scheduler step and before
\* the evaluation pass, creating the save folder when it is absent; when
\* the policy does not trigger the round writes nothing; no other step
\* writes a checkpoint.
C16_Checkpoints ==
    /\ [][(RoundEntry /\ rnd'.pc = "train") =>
            /\ UNCHANGED <<optimizer, scheduler, net>>
            /\ IF Triggers(EpochCounter) THEN WritesOnly(StartPath(EpochCounter))
                                          ELSE UNCHANGED save_dir]_vars
    /\ [][train_end =>
            /\ scheduler'.steps = rnd.s0 + 1
            /\ optimizer'.steps = rnd.o0 + NumBatches
            /\ rnd'.pc = "test"
            /\ IF Triggers(rnd.c0) THEN WritesOnly(EndPath(rnd.c0))
                                   ELSE UNCHANGED save_dir]_vars
    /\ [][save_dir' # save_dir => ((RoundEntry /\ rnd'.pc = "train") \/ train_end)]_vars
    /\ [](InRound =>
            LET saves == SelectSeq(rnd.trace, LAMBDA e : e[1] = "save_model") IN
            IF Triggers(rnd.c0)
            THEN /\ rnd.trace[1] = <<"save_model", StartPath(rnd.c0)>>
                 /\ rnd.pc = "train" => saves = << <<"save_model", StartPath(rnd.c0)>> >>
                 /\ rnd.pc # "train" =>
                       /\ saves = << <<"save_model", StartPath(rnd.c0)>>,
                                     <<"save_model", EndPath(rnd.c0)>> >>
                       /\ rnd.trace[2 * NumBatches + 2] = <<"scheduler.step">>
                       /\ rnd.trace[2 * NumBatches + 3] = <<"save_model", EndPath(rnd.c0)>>
                       /\ \A k \in 1..(2 * NumBatches + 3) : rnd.trace[k][1] # "test"
            ELSE saves = <<>>)

C16_Witness ==
    /\ rnd.pc = "tested"
    /\ rnd.c0 = 1
    /\ Triggers(1) /\ ~Triggers(0)
    /\ save_dir # None
    /\ {f.path : f \in save_dir[1]} = {StartPath(1), EndPath(1)}
    /\ \E f, g \in save_dir[1] :
          /\ f.path = StartPath(1) /\ g.path = EndPath(1)
          /\ g.w = f.w + NumBatches

\* C17: reset_model, infect_client and cure_client (the dataset constructor
\* and the model load succeeding) return without raising in every state the
\* client can be in; discarding the dataset does not fail when there is none.
C17_LifecycleOpsNeverRaise ==
    [][(\/ reset_model
        \/ \E pill \in PillArgs : infect_client(pill, TRUE)
        \/ cure_client(TRUE)) => ret'.status = "ok"]_vars

\* C18: a run_epochs call that raises, at its entry, in training or in
\* evaluation, leaves the round counter at its value before the call: the
\* counter advances only with a call that returns an EpochData.
C18_CounterOnlyWithCompletedRound ==
    /\ [][(RoundEntry /\ ~InRound') => EpochCounter' = EpochCounter]_vars
    /\ [][(InRound /\ ~InRound' /\ ~run_epochs_return) =>
            /\ ret'.op = "run_epochs" /\ ret'.val = None
            /\ EpochCounter' = rnd.c0]_vars

\* C19: a run_epochs invoked while the client holds no dataset raises to the
\* caller at its entry: it takes no training step, returns no EpochData,
\* writes no checkpoint, and leaves the round counter, the parameters, the
\* optimizer and the scheduler as they were.
C19_RoundWithoutDatasetFails ==
    [][(RoundEntry /\ dataset = None) =>
          /\ ret'.op = "run_epochs"
          /\ ret'.status = "AttributeError"
          /\ ret'.val = None
          /\ ~InRound'
          /\ rnd'.trace = <<>>
          /\ EpochCounter' = EpochCounter
          /\ UNCHANGED <<net, optimizer, scheduler, save_dir, weights>>]_vars

C19_Witness ==
    /\ ret.op = "run_epochs"
    /\ ret.status = "AttributeError"
    /\ rnd.pc = "idle"
    /\ dataset = None
    /\ epoch_counter = Some(0)
    /\ optimizer.steps = 0
    /\ Triggers(0)
    /\ save_dir = None

\* C20: no init_dataloader, run_epochs, infect_client, cure_client,
\* reset_model or rpc_test on one Client object changes what is_ready(), the
\* round counter, the call counter or get_client_datasize() yield on
\* another object of the same process.
C20_PerInstanceState ==
    [][/\ Observed("other")'.is_ready = Observed("other").is_ready
       /\ Observed("other")'.epoch_counter = Observed("other").epoch_counter
       /\ Observed("other")'.counter = Observed("other").counter
       /\ Observed("other")'.datasize = Observed("other").datasize]_vars

C20_Witness ==
    /\ Returned("rpc_test")
    /\ Observed("self") = [is_ready |-> FALSE, epoch_counter |-> 1, counter |-> 2,
                            datasize |-> ToString(NumBatches)]
    /\ other = NoAttrs
    /\ Observed("other") = [is_ready |-> FALSE, epoch_counter |-> 0, counter |-> 0,
                             datasize |-> ToString(FALSE)]
====
